---- MODULE Spec2Model ----
(***************************************************************************)
(* Model of the docker executor of pkg/executor/docker/executor.go:        *)
(* RunShard (prepare, create, start, follow logs, wait, write results,     *)
(* deferred cleanup), CancelShard, cleanupJob, cleanupAll and the naming   *)
(* and labelling functions, run by several invocations against one shared  *)
(* docker daemon.                                                          *)
(***************************************************************************)
EXTENDS Integers, Sequences, FiniteSets, TLC

(***************************************************************************)
(* Bounds of the model.                                                    *)
(***************************************************************************)
NumProcs == 2        \* concurrent RunShard invocations
MaxIdLen == 2        \* longest executor / job ID of the lifecycle model
MaxNameLen == 2      \* longest executor / job ID given to the naming functions
MaxIndex == 1        \* largest shard index
MaxInputs == 2       \* most resolved input volumes of one shard
MaxOutputs == 2      \* most declared outputs of one shard
MaxFaults == 1       \* failures the environment injects under load
MaxFaultsSeq == 2    \* failures the environment injects into a single call
MaxGpu == 2          \* most GPUs a job asks for

Procs == 1..NumProcs

(***************************************************************************)
(* Strings are sequences of one-character strings, so that concatenation   *)
(* and joining are computed as Go computes them.                           *)
(***************************************************************************)
RECURSIVE StrsOfLen(_, _)
StrsOfLen(chars, n) ==
    IF n = 0 THEN {<<>>}
    ELSE {<<c>> \o s : c \in chars, s \in StrsOfLen(chars, n - 1)}

\* the non-empty strings over chars of at most n characters
Strs(chars, n) == UNION {StrsOfLen(chars, k) : k \in 1..n}

Digit(d) == CASE d = 0 -> "0" [] d = 1 -> "1" [] d = 2 -> "2" [] d = 3 -> "3"
              [] d = 4 -> "4" [] d = 5 -> "5" [] d = 6 -> "6" [] d = 7 -> "7"
              [] d = 8 -> "8" [] d = 9 -> "9"

\* fmt.Sprint(n) of a non-negative int: its decimal digits
RECURSIVE Sprint(_)
Sprint(n) == IF n < 10 THEN <<Digit(n)>> ELSE Sprint(n \div 10) \o <<Digit(n % 10)>>

\* strings.Join(strs, sep)
RECURSIVE Join(_, _)
Join(strs, sep) ==
    IF Len(strs) = 0 THEN <<>>
    ELSE IF Len(strs) = 1 THEN strs[1]
    ELSE strs[1] \o sep \o Join(Tail(strs), sep)

labelExecutorName == "bacalhau-executor"
labelJobName == "bacalhau-jobID"

\* the shard's stable identity string, "<job id>:<index>"
ShardID(shard) == shard.job \o <<":">> \o Sprint(shard.index)

dockerObjectName(id, shard, parts) ==
    Join(<<<<"b","a","c","a","l","h","a","u">>, id, shard.job, Sprint(shard.index)>> \o parts, <<"-">>)

jobContainerName(id, shard) ==
    dockerObjectName(id, shard, <<<<"e","x","e","c","u","t","o","r">>>>)

labelJobValue(id, shard) == id \o ShardID(shard)

jobContainerLabelsNoJob(id, shard) ==
    [k \in {labelExecutorName, labelJobName} |->
        IF k = labelExecutorName THEN id ELSE <<>>]

jobContainerLabels(id, shard) ==
    [k \in {labelExecutorName, labelJobName} |->
        IF k = labelExecutorName THEN id ELSE labelJobValue(id, shard)]

(***************************************************************************)
(* Data of one RunShard call.                                              *)
(***************************************************************************)
StorageVolumeConnectorBind == "bind"

\* the i-th resolved input volume: host path -> sandbox path
InputVolume(i, type) ==
    [type |-> type,
     source |-> <<"/host/in" , Digit(i)>>,
     target |-> <<"/data/in", Digit(i)>>]

InputLists(n) ==
    UNION {{[i \in 1..k |-> InputVolume(i, t[i])] :
               t \in [1..k -> {StorageVolumeConnectorBind, "other"}]} : k \in 0..n}

OutputSpecs == [name : {"", "out", "res"}, path : {"", "/data/out"}]

OutputLists(n) == UNION {[1..k -> OutputSpecs] : k \in 0..n}

Shards(ids) == [job : ids, index : 0..MaxIndex]

\* the orders in which Go may range over a map of n entries
Orders(n) == {f \in [1..n -> 1..n] : \A i, j \in 1..n : i # j => f[i] # f[j]}

jobResultsDir == "/results"

NoResult == [kind |-> "none", exitCode |-> 0, err |-> <<>>]

\* executor.FailResult(err): a failure carrying the error, no exit code
FailResult(err) == [kind |-> "fail", exitCode |-> 0, err |-> <<err>>]

\* multierr.Combine(a, b): the non-nil errors, in order; nil (<<>>) when none
CombineDropSecond(a, b) == IF a = "nil" THEN <<>> ELSE <<a>>

Combine(a, b) ==
    (IF a = "nil" THEN <<>> ELSE <<a>>) \o (IF b = "nil" THEN <<>> ELSE <<b>>)

\* executor.WriteJobResults(dir, stdout, stderr, exitcode, err)
WriteJobResults(exitCode, err) == [kind |-> "result", exitCode |-> exitCode, err |-> err]

(***************************************************************************)
(* The mount building of RunShard, lines 130-184.                          *)
(***************************************************************************)
\* lines 133-146: one read-only bind mount per resolved volume, in the
\* order the range over the map yields them; any other type aborts
RECURSIVE InputLoop(_, _)
InputLoop(vols, mounts) ==
    IF Len(vols) = 0 THEN [err |-> "nil", mounts |-> mounts]
    ELSE IF Head(vols).type = StorageVolumeConnectorBind
         THEN InputLoop(Tail(vols),
                  Append(mounts, [readOnly |-> TRUE,
                                  source |-> Head(vols).source,
                                  target |-> Head(vols).target]))
         ELSE [err |-> "unknown storage volume type", mounts |-> mounts]

\* lines 152-184: validate each output, create its directory, mount it
\* read-write. os.Mkdir fails when the directory exists already, or when
\* the host refuses (mkdirFail names the output at which it does).
\* the same loop with the directory made before the path is looked at
RECURSIVE OutputLoopMkdirFirst(_, _, _, _, _)
OutputLoopMkdirFirst(outs, i, mounts, dirs, mkdirFail) ==
    IF i > Len(outs) THEN [err |-> "nil", mounts |-> mounts, dirs |-> dirs]
    ELSE IF outs[i].name = ""
         THEN [err |-> "output volume has no name", mounts |-> mounts, dirs |-> dirs]
    ELSE IF mkdirFail = i \/ <<jobResultsDir, outs[i].name>> \in dirs
         THEN [err |-> "mkdir", mounts |-> mounts, dirs |-> dirs]
    ELSE IF outs[i].path = ""
         THEN [err |-> "output volume has no path", mounts |-> mounts,
               dirs |-> dirs \cup {<<jobResultsDir, outs[i].name>>}]
    ELSE OutputLoopMkdirFirst(outs, i + 1,
             Append(mounts, [readOnly |-> FALSE,
                             source |-> <<jobResultsDir, outs[i].name>>,
                             target |-> <<outs[i].path>>]),
             dirs \cup {<<jobResultsDir, outs[i].name>>}, mkdirFail)

RECURSIVE OutputLoop(_, _, _, _, _)
OutputLoop(outs, i, mounts, dirs, mkdirFail) ==
    IF i > Len(outs) THEN [err |-> "nil", mounts |-> mounts, dirs |-> dirs]
    ELSE IF outs[i].name = ""
         THEN [err |-> "output volume has no name", mounts |-> mounts, dirs |-> dirs]
    ELSE IF outs[i].path = ""
         THEN [err |-> "output volume has no path", mounts |-> mounts, dirs |-> dirs]
    ELSE IF mkdirFail = i \/ <<jobResultsDir, outs[i].name>> \in dirs
         THEN [err |-> "mkdir", mounts |-> mounts, dirs |-> dirs]
    ELSE OutputLoop(outs, i + 1,
             Append(mounts, [readOnly |-> FALSE,
                             source |-> <<jobResultsDir, outs[i].name>>,
                             target |-> <<outs[i].path>>]),
             dirs \cup {<<jobResultsDir, outs[i].name>>}, mkdirFail)

PrepFailPoints == {"none", "shardSpec", "storage", "pull", "marshal", "network"}

PrepEnvs(nIn) ==
    [failAt : PrepFailPoints, mkdirFail : 0..MaxOutputs, order : Orders(nIn),
     skipPull : BOOLEAN]

\* lines 116-246 of RunShard under the environment's choices env: the error
\* it returns ("nil" when it goes on to create the container), the mounts
\* built so far and the directories made
PrepareOutcome(ins, outs, env) ==
    LET vols == [i \in 1..Len(ins) |-> ins[env.order[i]]]
        inp == InputLoop(vols, <<>>)
        outp == OutputLoop(outs, 1, inp.mounts, {}, env.mkdirFail)
    IN  IF env.failAt = "shardSpec"
        THEN [err |-> "shardStorageSpec", mounts |-> <<>>, dirs |-> {}]
        ELSE IF env.failAt = "storage"
        THEN [err |-> "prepareStorage", mounts |-> <<>>, dirs |-> {}]
        ELSE IF inp.err # "nil"
        THEN [err |-> inp.err, mounts |-> inp.mounts, dirs |-> {}]
        ELSE IF outp.err # "nil"
        THEN [err |-> outp.err, mounts |-> outp.mounts, dirs |-> outp.dirs]
        ELSE IF env.failAt = "pull" /\ ~env.skipPull
        THEN [err |-> "Could not pull image", mounts |-> outp.mounts, dirs |-> outp.dirs]
        ELSE IF env.failAt = "marshal"
        THEN [err |-> "marshal", mounts |-> outp.mounts, dirs |-> outp.dirs]
        ELSE IF env.failAt = "network"
        THEN [err |-> "network", mounts |-> outp.mounts, dirs |-> outp.dirs]
        ELSE [err |-> "nil", mounts |-> outp.mounts, dirs |-> outp.dirs]

(***************************************************************************)
(* State.                                                                  *)
(***************************************************************************)
VARIABLES
    keepStack,      \* config.ShouldKeepStack()
    objects,        \* the docker daemon's containers and networks
    shutdownDone,   \* the executors whose shutdown callback has run
    faults,         \* failures the environment may still inject
    exec,           \* exec[p]: ID of the Executor RunShard p is called on
    shard,          \* shard[p]: the shard argument
    inputs,         \* inputs[p]: the volumes storage resolves for the shard
    outputs,        \* outputs[p]: shard.Job.Spec.Outputs
    exitStatus,     \* exitStatus[p]: the status the shard's container ends with
    pc,             \* pc[p]: where invocation p stands
    ctxCancelled,   \* ctxCancelled[p]: the caller cancelled p's context
    mounts,         \* mounts[p]: the local variable mounts
    dirs,           \* dirs[p]: directories made under jobResultsDir
    logsErr,        \* logsErr[p]: what FollowLogs returned
    errCh,          \* errCh[p]: what the wait's error channel holds
    statusCh,       \* statusCh[p]: what the wait's status channel holds
    result,         \* result[p]: what RunShard returns
    calls,          \* calls[p]: the steps the invocation has taken, in order
    nameIn,         \* arguments given to the naming functions
    nameOut,        \* what the naming functions returned
    startErr,       \* startErr[p]: the message of containerStartError
    cancelRet,      \* the error the last CancelShard call returned
    hung,           \* the executors whose cleanupAll is blocked in its removal
    resIn,          \* resource requirements given to the translation
    resOut,         \* the container.Resources made of them
    cancelled,      \* the invocations in flight a CancelShard of their shard
                    \* has returned without error for
    sweptEarly,     \* the invocations that had not yet asked for their
                    \* container when cleanupAll of their executor ran
    history         \* whether cancelled and sweptEarly are kept

vars == <<keepStack, objects, shutdownDone, faults, exec, shard, inputs, outputs,
          exitStatus, pc, ctxCancelled, mounts, dirs, logsErr, errCh, statusCh,
          result, calls, nameIn, nameOut,
                   startErr, cancelRet, hung, resIn, resOut,
                   cancelled, sweptEarly, history>>

IdChars == {"a"}
ExecutorIDs == Strs(IdChars, MaxIdLen)
JobIDs == Strs(IdChars, MaxIdLen)

ExitCodes == {0, 137}
ExitStatuses == [code : ExitCodes, msg : BOOLEAN]

\* the statement RunShard p resumes at: "prepare" line 116, "create" line
\* 248, "start" line 262, "follow" line 277, "select" line 289, "deferred"
\* the deferred calls of lines 111 and 114, "blocked" in a deferred removal
\* that does not return, "done" returned
PcValues ==
    {"prepare", "create", "start", "follow", "select", "deferred", "blocked", "done"}

\* the (executor, shard) pairs of the calls
Idents(idSet) == [exec : idSet, shard : Shards(idSet)]

InitRun(active, identSets, inSet, outSet, statusSet, maxFaults) ==
    /\ keepStack \in BOOLEAN
    /\ objects = {}
    /\ shutdownDone = {}
    /\ faults = maxFaults
    /\ \E id \in identSets :
          /\ exec = [p \in Procs |-> id[p].exec]
          /\ shard = [p \in Procs |-> id[p].shard]
    /\ inputs \in [Procs -> inSet]
    /\ outputs \in [Procs -> outSet]
    /\ exitStatus \in [Procs -> statusSet]
    /\ \A p \in Procs \ active :
          /\ inputs[p] = inputs[1]
          /\ outputs[p] = outputs[1]
          /\ exitStatus[p] = exitStatus[1]
    /\ pc = [p \in Procs |-> IF p \in active THEN "prepare" ELSE "done"]
    /\ ctxCancelled = [p \in Procs |-> FALSE]
    /\ mounts = [p \in Procs |-> <<>>]
    /\ dirs = [p \in Procs |-> {}]
    /\ logsErr = [p \in Procs |-> "nil"]
    /\ errCh = [p \in Procs |-> <<>>]
    /\ statusCh = [p \in Procs |-> <<>>]
    /\ result = [p \in Procs |-> NoResult]
    /\ calls = [p \in Procs |-> <<>>]
    /\ startErr = [p \in Procs |-> <<>>]
    /\ cancelRet = "nil"
    /\ hung = {}
    /\ cancelled = {}
    /\ sweptEarly = {}

(***************************************************************************)
(* The docker daemon.                                                      *)
(***************************************************************************)
\* docker.RemoveObjectsWithLabel: every object whose label key has the value
RemoveObjectsWithLabel(objs, key, value) == {o \in objs : o.labels[key] # value}

Container(p) == {o \in objects : o.by = p /\ o.kind = "container"}

\* whether the environment injects a failure in this step
Injected == IF faults > 0 THEN BOOLEAN ELSE {FALSE}

Spend(failed) == faults' = IF failed THEN faults - 1 ELSE faults

\* a return statement runs the deferred calls (lines 111, 114) before the
\* caller has the result
AfterReturnNoDefer(r) == IF r.kind = "fail" THEN "done" ELSE "deferred"

AfterReturn(r) == "deferred"

(***************************************************************************)
(* RunShard.                                                               *)
(***************************************************************************)
\* every error of lines 116-246 is returned at once (lines 118, 127, 144,
\* 155, 160, 166, 190, 200, 245); without one, line 248 is next
PrepareNextPullNotReturned(err) ==
    IF err \in {"nil", "Could not pull image"} THEN "create"
    ELSE AfterReturn(FailResult(err))

PrepareNext(err) == IF err = "nil" THEN "create" ELSE AfterReturn(FailResult(err))

\* lines 116-246: storage, mounts, image pull, job spec JSON, network
RunShard_Prepare(p) ==
    /\ pc[p] = "prepare"
    /\ \E env \in PrepEnvs(Len(inputs[p])) :
          LET r == PrepareOutcome(inputs[p], outputs[p], env)
              failed == env.failAt # "none" \/ env.mkdirFail # 0
          IN  /\ failed \in Injected
              /\ Spend(failed)
              /\ mounts' = [mounts EXCEPT ![p] = r.mounts]
              /\ dirs' = [dirs EXCEPT ![p] = r.dirs]
              /\ result' = IF r.err = "nil" THEN result
                            ELSE [result EXCEPT ![p] = FailResult(r.err)]
              /\ pc' = [pc EXCEPT ![p] = PrepareNext(r.err)]
    /\ calls' = [calls EXCEPT ![p] = Append(@, "prepare")]
    /\ UNCHANGED <<keepStack, objects, shutdownDone, exec, shard, inputs, outputs,
                   exitStatus, ctxCancelled, logsErr, errCh, statusCh, nameIn, nameOut,
                   startErr, cancelRet, hung, resIn, resOut,
                   cancelled, sweptEarly, history>>

\* lines 256-258: a failing ContainerCreate is returned at once; the call is
\* not made again
CreateNextRetry(ok) == IF ok THEN "start" ELSE "create"

CreateNext(ok) ==
    IF ok THEN "start" ELSE AfterReturn(FailResult("failed to create container"))

\* lines 208-258: ContainerCreate under the shard's name and labels; the
\* daemon refuses a cancelled context and a name already in use
RunShard_Create(p) ==
    /\ pc[p] = "create"
    /\ calls' = [calls EXCEPT ![p] = Append(@, "create")]
    /\ \E daemonFails \in Injected :
          LET name == jobContainerName(exec[p], shard[p])
              ok == /\ ~daemonFails
                    /\ ~ctxCancelled[p]
                    /\ \A o \in objects : o.name # name
          IN  /\ Spend(daemonFails)
              /\ IF ok
                 THEN /\ objects' = objects \cup
                             {[kind |-> "container", by |-> p, name |-> name,
                               labels |-> jobContainerLabels(exec[p], shard[p]),
                               state |-> "created"]}
                      /\ result' = result
                 ELSE /\ objects' = objects
                      /\ result' = [result EXCEPT ![p] =
                                       FailResult("failed to create container")]
              /\ pc' = [pc EXCEPT ![p] = CreateNext(ok)]
    /\ UNCHANGED <<keepStack, shutdownDone, exec, shard, inputs, outputs, exitStatus,
                   ctxCancelled, mounts, dirs, logsErr, errCh, statusCh, nameIn, nameOut,
                   startErr, cancelRet, hung, resIn, resOut,
                   cancelled, sweptEarly, history>>

\* strings.Contains(s, sub) on sequences
Contains(s, sub) ==
    \E i \in 0..(Len(s) - Len(sub)) : \A j \in 1..Len(sub) : s[i + j] = sub[j]

\* messages a failing ContainerStart may carry, as sequences of words
StartErrors ==
    {<<"No", "such", "container">>,
     <<"exec:", "executable", "file", "not", "found", "in", "$PATH">>,
     <<"executable", "file", "is", "not", "found">>}

\* lines 267-274: the message the start error is wrapped with
StartErrorMsgGeneric(e) == "failed to start container"

StartErrorMsg(e) ==
    IF Contains(e, <<"executable", "file", "not", "found">>)
    THEN "Executable file not found"
    ELSE "failed to start container"

\* lines 262-275: ContainerStart; it fails when the context is cancelled or
\* the container is gone, and when the daemon cannot start it
RunShard_Start(p) ==
    /\ pc[p] = "start"
    /\ calls' = [calls EXCEPT ![p] = Append(@, "start")]
    /\ \E daemonFails \in Injected :
          /\ Spend(daemonFails)
          /\ IF ~daemonFails /\ ~ctxCancelled[p] /\ Container(p) # {}
             THEN /\ objects' = (objects \ Container(p)) \cup
                                    {[o EXCEPT !.state = "running"] : o \in Container(p)}
                  /\ pc' = [pc EXCEPT ![p] = "follow"]
                  /\ result' = result
                  /\ startErr' = startErr
             ELSE \E e \in StartErrors :
                     /\ (~daemonFails) => e = <<"No", "such", "container">>
                     /\ objects' = objects
                     /\ startErr' = [startErr EXCEPT ![p] = e]
                     /\ result' = [result EXCEPT ![p] = FailResult(StartErrorMsg(e))]
                     /\ pc' = [pc EXCEPT ![p] = AfterReturn(FailResult(StartErrorMsg(e)))]
    /\ UNCHANGED <<keepStack, shutdownDone, exec, shard, inputs, outputs, exitStatus,
                   ctxCancelled, mounts, dirs, logsErr, errCh, statusCh, nameIn, nameOut,
                   cancelRet, hung, resIn, resOut,
                   cancelled, sweptEarly, history>>

\* lines 277-288: FollowLogs, then ContainerWait hands back its two channels
RunShard_FollowWait(p) ==
    /\ pc[p] = "follow"
    /\ calls' = [calls EXCEPT ![p] = @ \o <<"logs", "wait">>]
    /\ \E daemonFails \in Injected :
          /\ Spend(daemonFails)
          /\ logsErr' = [logsErr EXCEPT ![p] =
                            IF daemonFails \/ ctxCancelled[p] THEN "logs" ELSE "nil"]
    /\ pc' = [pc EXCEPT ![p] = "select"]
    /\ UNCHANGED <<keepStack, objects, shutdownDone, exec, shard, inputs, outputs,
                   exitStatus, ctxCancelled, mounts, dirs, errCh, statusCh, result,
                   nameIn, nameOut,
                   startErr, cancelRet, hung, resIn, resOut,
                   cancelled, sweptEarly, history>>

\* the cases of the select of lines 289-297 that can proceed
ReadyCasesErrOnly(ech, sch) == IF ech # <<>> THEN {"err"} ELSE {}

ReadyCases(ech, sch) ==
    (IF ech # <<>> THEN {"err"} ELSE {}) \cup (IF sch # <<>> THEN {"status"} ELSE {})

\* int(containerExitStatusCode): int is 64 bits wide on the supported
\* platforms, as the int64 status code is
ToInt(c) == c

\* lines 290-297: what the taken case leaves in containerError and
\* containerExitStatusCode
SelectCaseNoCode(case, sch) ==
    IF case = "err"
    THEN [containerError |-> "wait", containerExitStatusCode |-> 0]
    ELSE [containerError |-> IF sch[1].msg THEN "exitStatus" ELSE "nil",
          containerExitStatusCode |-> 0]

SelectCase(case, sch) ==
    IF case = "err"
    THEN [containerError |-> "wait", containerExitStatusCode |-> 0]
    ELSE [containerError |-> IF sch[1].msg THEN "exitStatus" ELSE "nil",
          containerExitStatusCode |-> sch[1].code]

\* lines 289-305: the select takes one ready case, then WriteJobResults
RunShard_Select(p) ==
    /\ pc[p] = "select"
    /\ \E case \in ReadyCases(errCh[p], statusCh[p]) :
          LET c == SelectCase(case, statusCh[p])
              r == WriteJobResults(ToInt(c.containerExitStatusCode),
                                   Combine(c.containerError, logsErr[p]))
          IN  /\ result' = [result EXCEPT ![p] = r]
              /\ pc' = [pc EXCEPT ![p] = AfterReturn(r)]
              /\ errCh' = [errCh EXCEPT ![p] = IF case = "err" THEN <<>> ELSE @]
              /\ statusCh' = [statusCh EXCEPT ![p] = IF case = "status" THEN <<>> ELSE @]
    /\ calls' = [calls EXCEPT ![p] = Append(@, "writeResults")]
    /\ UNCHANGED <<keepStack, objects, shutdownDone, faults, exec, shard, inputs, outputs,
                   exitStatus, ctxCancelled, mounts, dirs, logsErr, nameIn, nameOut,
                   startErr, cancelRet, hung, resIn, resOut,
                   cancelled, sweptEarly, history>>

\* what the daemon does with a removal request: it carries it out, it
\* answers with an error, or it does not answer
DaemonAnswers == IF faults > 0 THEN {"ok", "fail", "hang"} ELSE {"ok"}

\* a call under a context returns when the daemon answers or the context
\* ends; a context without a deadline that nobody cancels never ends
CallReturns(answer, ctxEnds) == answer # "hang" \/ ctxEnds

\* lines 317-320: the context cleanupJob removes under is a fresh one, made
\* from context.Background(): the caller's cancellation does not reach it
cleanupJobCallerCtx(p) == ctxCancelled[p]

cleanupJobCtxCancelled(p) == FALSE

\* line 317: context.WithTimeout(context.Background(), 1*time.Minute)
cleanupJobCtxDeadline == TRUE

\* line 320: the label cleanupJob removes by
cleanupJobSelectorExecutor(p) == <<labelJobName, exec[p]>>

cleanupJobSelector(p) == <<labelJobName, labelJobValue(exec[p], shard[p])>>

\* lines 111, 114, 312-323: the deferred cleanupJob, then the deferred
\* span.End, and RunShard has returned. cleanupJob has no return value: the
\* error of the removal is logged (lines 321-322).
RunShard_Return(p) ==
    /\ pc[p] = "deferred"
    /\ cancelled' = cancelled \ {p}
    /\ IF keepStack
       THEN /\ objects' = objects
            /\ faults' = faults
            /\ pc' = [pc EXCEPT ![p] = "done"]
            /\ calls' = [calls EXCEPT ![p] = Append(@, "cleanupJob")]
       ELSE \E answer \in DaemonAnswers :
               /\ Spend(answer # "ok")
               /\ pc' = [pc EXCEPT ![p] =
                            IF CallReturns(answer, cleanupJobCtxDeadline)
                            THEN "done" ELSE "blocked"]
               /\ IF cleanupJobCtxCancelled(p)
                  THEN /\ objects' = objects
                       /\ calls' = [calls EXCEPT ![p] = @ \o <<"cleanupJob", "removeCtxErr">>]
                  ELSE IF answer # "ok"
                  THEN /\ objects' = objects
                       /\ calls' = [calls EXCEPT ![p] = @ \o <<"cleanupJob", "removeErr">>]
                  ELSE /\ objects' = RemoveObjectsWithLabel(objects,
                                         cleanupJobSelector(p)[1], cleanupJobSelector(p)[2])
                       /\ calls' = [calls EXCEPT ![p] = @ \o <<"cleanupJob", "remove">>]
    /\ UNCHANGED <<keepStack, shutdownDone, exec, shard, inputs, outputs, exitStatus,
                   ctxCancelled, mounts, dirs, logsErr, errCh, statusCh, result,
                   nameIn, nameOut, startErr, cancelRet, hung, resIn, resOut,
                   sweptEarly, history>>

(***************************************************************************)
(* CancelShard, cleanupAll and the caller.                                 *)
(***************************************************************************)
\* line 309: what CancelShard returns, the error of the removal as it is
CancelShardReturn(err) == err

\* the RunShard invocations for shard s of executor e that have not returned
InFlight(e, s) == {p \in Procs : pc[p] # "done" /\ exec[p] = e /\ shard[p] = s}

\* lines 308-310: removal by the shard's job label under the context the
\* caller gives; it fails when that context is a cancelled one or the daemon
\* answers with an error. ShouldKeepStack is not asked.
CancelShard(e, s) ==
    /\ InFlight(e, s) # {}
    /\ \E removalFails \in Injected :
          LET err == IF removalFails THEN "err" ELSE "nil"
          IN  /\ Spend(removalFails)
              /\ objects' = IF err # "nil" THEN objects
                            ELSE RemoveObjectsWithLabel(objects, labelJobName,
                                                        labelJobValue(e, s))
              /\ cancelRet' = CancelShardReturn(err)
              /\ cancelled' = IF history /\ CancelShardReturn(err) = "nil"
                              THEN cancelled \cup InFlight(e, s)
                              ELSE cancelled
    /\ UNCHANGED <<keepStack, shutdownDone, exec, shard, inputs, outputs, exitStatus, pc,
                   ctxCancelled, mounts, dirs, logsErr, errCh, statusCh, result, calls,
                   nameIn, nameOut, startErr, hung, resIn, resOut, sweptEarly, history>>

\* lines 331-334: cleanupAll removes under context.Background(), whatever
\* has become of the context NewExecutor was given
cleanupAllCallerCtx(callerCancelled) == callerCancelled

cleanupAllCtxCancelled(callerCancelled) == FALSE

\* line 331: context.Background() has no deadline
cleanupAllCtxDeadline == FALSE

\* line 334: the label cleanupAll removes by
cleanupAllSelector(e) == <<labelExecutorName, e>>

\* lines 325-337, run once by the callback of lines 65-68 at shutdown; the
\* context of NewExecutor it is given may be cancelled by then
cleanupAll(e) ==
    /\ e \notin shutdownDone
    /\ \E p \in Procs : exec[p] = e
    /\ shutdownDone' = shutdownDone \cup {e}
    /\ sweptEarly' = IF history
                      THEN sweptEarly \cup {p \in Procs : exec[p] = e /\
                                                pc[p] \in {"prepare", "create"}}
                      ELSE sweptEarly
    /\ IF keepStack
       THEN objects' = objects /\ faults' = faults /\ hung' = hung
       ELSE \E answer \in DaemonAnswers, callerCancelled \in BOOLEAN :
               /\ Spend(answer # "ok")
               /\ hung' = IF CallReturns(answer, cleanupAllCtxDeadline)
                          THEN hung ELSE hung \cup {e}
               /\ objects' = IF answer # "ok" \/ cleanupAllCtxCancelled(callerCancelled)
                             THEN objects
                             ELSE RemoveObjectsWithLabel(objects, cleanupAllSelector(e)[1],
                                                         cleanupAllSelector(e)[2])
    /\ UNCHANGED <<keepStack, exec, shard, inputs, outputs, exitStatus, pc, ctxCancelled,
                   mounts, dirs, logsErr, errCh, statusCh, result, calls, nameIn, nameOut,
                   startErr, cancelRet, resIn, resOut, cancelled, history>>

\* the caller cancels the context it gave RunShard p
CancelCtx(p) ==
    /\ pc[p] # "done"
    /\ ~ctxCancelled[p]
    /\ ctxCancelled' = [ctxCancelled EXCEPT ![p] = TRUE]
    /\ UNCHANGED <<keepStack, objects, shutdownDone, faults, exec, shard, inputs, outputs,
                   exitStatus, pc, mounts, dirs, logsErr, errCh, statusCh, result, calls,
                   nameIn, nameOut,
                   startErr, cancelRet, hung, resIn, resOut,
                   cancelled, sweptEarly, history>>

\* the wait of line 284 delivers the exit status once the container has
\* ended or has been removed
WaitDeliversStatus(p) ==
    /\ pc[p] = "select"
    /\ statusCh[p] = <<>>
    /\ statusCh' = [statusCh EXCEPT ![p] = <<exitStatus[p]>>]
    /\ objects' = (objects \ Container(p)) \cup
                      {[o EXCEPT !.state = "exited"] : o \in Container(p)}
    /\ UNCHANGED <<keepStack, shutdownDone, faults, exec, shard, inputs, outputs,
                   exitStatus, pc, ctxCancelled, mounts, dirs, logsErr, errCh, result,
                   calls, nameIn, nameOut,
                   startErr, cancelRet, hung, resIn, resOut,
                   cancelled, sweptEarly, history>>

\* the wait of line 284 delivers an error: the context was cancelled, or the
\* daemon could not be reached
WaitDeliversError(p) ==
    /\ pc[p] = "select"
    /\ errCh[p] = <<>>
    /\ \E daemonFails \in Injected :
          /\ daemonFails \/ ctxCancelled[p]
          /\ Spend(daemonFails)
    /\ errCh' = [errCh EXCEPT ![p] = <<"wait">>]
    /\ UNCHANGED <<keepStack, objects, shutdownDone, exec, shard, inputs, outputs,
                   exitStatus, pc, ctxCancelled, mounts, dirs, logsErr, statusCh, result,
                   calls, nameIn, nameOut,
                   startErr, cancelRet, hung, resIn, resOut,
                   cancelled, sweptEarly, history>>

Next ==
    \/ \E p \in Procs :
          \/ RunShard_Prepare(p)
          \/ RunShard_Create(p)
          \/ RunShard_Start(p)
          \/ RunShard_FollowWait(p)
          \/ RunShard_Select(p)
          \/ RunShard_Return(p)
          \/ CancelCtx(p)
          \/ WaitDeliversStatus(p)
          \/ WaitDeliversError(p)
    \/ \E e \in ExecutorIDs, s \in Shards(JobIDs) : CancelShard(e, s)
    \/ \E e \in ExecutorIDs : cleanupAll(e)

\* the calls under load: concurrent invocations, one input, one output
LoadIdents ==
    {id \in [Procs -> Idents(ExecutorIDs)] :
        /\ \A p \in Procs : id[p].shard.index = 0
        /\ id[1] = [exec |-> <<"a">>, shard |-> [job |-> <<"a", "a">>, index |-> 0]]}
LoadInputs == {<<InputVolume(1, StorageVolumeConnectorBind)>>}
LoadOutputs == {<<[name |-> "out", path |-> "/data/out"]>>}
LoadStatuses == {[code |-> 137, msg |-> FALSE]}

Init ==
    /\ InitRun(Procs, LoadIdents, LoadInputs, LoadOutputs, LoadStatuses, MaxFaults)
    /\ nameIn = <<>>
    /\ nameOut = <<>>
    /\ resIn = <<>>
    /\ resOut = <<>>
    /\ history = FALSE

Spec == Init /\ [][Next]_vars

\* one invocation, every input and output list within the bounds
InitSeq ==
    /\ InitRun({1}, {[p \in Procs |-> [exec |-> <<"a">>,
                                       shard |-> [job |-> <<"a">>, index |-> 0]]]},
               InputLists(MaxInputs), OutputLists(MaxOutputs), ExitStatuses, MaxFaultsSeq)
    /\ nameIn = <<>>
    /\ nameOut = <<>>
    /\ resIn = <<>>
    /\ resOut = <<>>
    /\ history = FALSE

SpecSeq == InitSeq /\ [][Next]_vars

\* one invocation of the example shard, every exit status
InitLive ==
    /\ InitRun({1}, {[p \in Procs |-> [exec |-> <<"a">>,
                                       shard |-> [job |-> <<"a">>, index |-> 0]]]},
               LoadInputs, LoadOutputs, ExitStatuses, MaxFaultsSeq)
    /\ nameIn = <<>>
    /\ nameOut = <<>>
    /\ resIn = <<>>
    /\ resOut = <<>>
    /\ history = FALSE

\* the statements of RunShard p, the deferred calls included
RunShard(p) ==
    \/ RunShard_Prepare(p)
    \/ RunShard_Create(p)
    \/ RunShard_Start(p)
    \/ RunShard_FollowWait(p)
    \/ RunShard_Select(p)
    \/ RunShard_Return(p)

\* the goroutine of RunShard goes on while it can: every call it makes
\* returns, and the wait of line 284 delivers an error or an exit status
Fairness ==
    \A p \in Procs :
        /\ WF_vars(RunShard(p))
        /\ WF_vars(WaitDeliversStatus(p) \/ WaitDeliversError(p))

SpecLive == InitLive /\ [][Next]_vars /\ Fairness

\* two invocations on one executor, of one shard or of two, with the
\* history of the cancellations and of the shutdown sweep kept
RaceIdents ==
    {id \in LoadIdents : id[2].exec = id[1].exec}

InitRace ==
    /\ InitRun(Procs, RaceIdents, LoadInputs, LoadOutputs, LoadStatuses, MaxFaults)
    /\ nameIn = <<>>
    /\ nameOut = <<>>
    /\ resIn = <<>>
    /\ resOut = <<>>
    /\ history = TRUE

SpecRace == InitRace /\ [][Next]_vars

(***************************************************************************)
(* The naming functions on their own: two (executor ID, shard) pairs are   *)
(* drawn, and the names and labels of both are derived.                    *)
(***************************************************************************)
NameChars == {"a", "-"}

NameIdents == Idents(Strs(NameChars, MaxNameLen))

DeriveNames ==
    /\ nameOut = <<>>
    /\ nameOut' = [i \in 1..2 |->
                      [name |-> jobContainerName(nameIn[i].exec, nameIn[i].shard),
                       label |-> jobContainerLabels(nameIn[i].exec,
                                                    nameIn[i].shard)[labelJobName]]]
    /\ UNCHANGED <<keepStack, objects, shutdownDone, faults, exec, shard, inputs, outputs,
                   exitStatus, pc, ctxCancelled, mounts, dirs, logsErr, errCh, statusCh,
                   result, calls, nameIn,
                   startErr, cancelRet, hung, resIn, resOut,
                   cancelled, sweptEarly, history>>

InitNames ==
    /\ InitRun({}, {[p \in Procs |-> [exec |-> <<"a">>,
                                      shard |-> [job |-> <<"a">>, index |-> 0]]]},
               {<<>>}, {<<>>}, {[code |-> 0, msg |-> FALSE]}, 0)
    /\ keepStack = FALSE
    /\ nameIn \in [1..2 -> NameIdents]
    /\ nameOut = <<>>
    /\ resIn = <<>>
    /\ resOut = <<>>
    /\ history = FALSE

SpecNames == InitNames /\ [][DeriveNames]_vars

(***************************************************************************)
(* The resource translation of lines 219-240. The values are 64 bits wide,  *)
(* so naturals are kept as sequences of decimal limbs, lowest limb first,   *)
(* without leading zero limbs; an int64 is a sign and a magnitude.          *)
(***************************************************************************)
LimbBase == 10000

RECURSIVE NatNorm(_)
NatNorm(x) ==
    IF Len(x) > 0 /\ x[Len(x)] = 0 THEN NatNorm(SubSeq(x, 1, Len(x) - 1)) ELSE x

RECURSIVE NatAddCarry(_, _, _)
NatAddCarry(x, y, c) ==
    IF Len(x) = 0 /\ Len(y) = 0 THEN (IF c = 0 THEN <<>> ELSE <<c>>)
    ELSE LET a == IF Len(x) = 0 THEN 0 ELSE x[1]
             b == IF Len(y) = 0 THEN 0 ELSE y[1]
             t == a + b + c
         IN  <<t % LimbBase>> \o
             NatAddCarry(IF Len(x) = 0 THEN x ELSE Tail(x),
                         IF Len(y) = 0 THEN y ELSE Tail(y), t \div LimbBase)

NatAdd(x, y) == NatAddCarry(x, y, 0)

\* x - y for x >= y
RECURSIVE NatSubBorrow(_, _, _)
NatSubBorrow(x, y, b) ==
    IF Len(x) = 0 THEN <<>>
    ELSE LET t == x[1] - (IF Len(y) = 0 THEN 0 ELSE y[1]) - b
         IN  <<IF t < 0 THEN t + LimbBase ELSE t>> \o
             NatSubBorrow(Tail(x), IF Len(y) = 0 THEN y ELSE Tail(y),
                          IF t < 0 THEN 1 ELSE 0)

NatSub(x, y) == NatNorm(NatSubBorrow(x, y, 0))

RECURSIVE NatMulLimb(_, _, _)
NatMulLimb(x, k, c) ==
    IF Len(x) = 0 THEN (IF c = 0 THEN <<>> ELSE <<c>>)
    ELSE LET t == x[1] * k + c
         IN  <<t % LimbBase>> \o NatMulLimb(Tail(x), k, t \div LimbBase)

RECURSIVE NatMul(_, _)
NatMul(x, y) ==
    IF Len(y) = 0 \/ Len(x) = 0 THEN <<>>
    ELSE NatNorm(NatAdd(NatMulLimb(x, y[1], 0), <<0>> \o NatMul(x, Tail(y))))

RECURSIVE NatLess(_, _)
NatLess(x, y) ==
    IF Len(x) # Len(y) THEN Len(x) < Len(y)
    ELSE IF Len(x) = 0 THEN FALSE
    ELSE IF x[Len(x)] # y[Len(y)] THEN x[Len(x)] < y[Len(y)]
    ELSE NatLess(SubSeq(x, 1, Len(x) - 1), SubSeq(y, 1, Len(y) - 1))

\* the whole part of x / 2
RECURSIVE NatHalfRem(_, _)
NatHalfRem(x, r) ==
    IF Len(x) = 0 THEN <<>>
    ELSE LET t == r * LimbBase + x[Len(x)]
         IN  NatHalfRem(SubSeq(x, 1, Len(x) - 1), t % 2) \o <<t \div 2>>

NatHalf(x) == NatNorm(NatHalfRem(x, 0))

Int64(neg, mag) == [neg |-> neg /\ mag # <<>>, mag |-> mag]

IntLeq(a, b) ==
    IF a.neg /\ ~b.neg THEN TRUE
    ELSE IF ~a.neg /\ b.neg THEN FALSE
    ELSE IF a.neg THEN ~NatLess(a.mag, b.mag)
    ELSE ~NatLess(b.mag, a.mag)

\* 2^63 - 1, 2^64 - 1 and -2^63
MaxInt64 == <<5807, 5477, 368, 3372, 922>>
MaxUint64 == <<1615, 955, 737, 6744, 1844>>
MinInt64 == Int64(TRUE, NatAdd(MaxInt64, <<1>>))

\* int64(u) of a uint64 u (line 236): the same 64 bits, read as two's
\* complement
Uint64ToInt64(u) ==
    IF NatLess(MaxInt64, u) THEN Int64(TRUE, NatSub(NatAdd(MaxUint64, <<1>>), u))
    ELSE Int64(FALSE, u)

\* line 31
NanoCPUCoefficient == <<0, 0, 10>>

\* int64(f) of a float64 f >= 0 with a whole value (line 237): that value
\* when int64 holds it; otherwise what the platform's conversion gives, the
\* smallest int64 on amd64, the largest on arm64
Float64ToInt64(f) ==
    IF NatLess(MaxInt64, f) THEN {MinInt64, Int64(FALSE, MaxInt64)} ELSE {Int64(FALSE, f)}

\* resourceRequirements as capacity.ParseResourceUsageConfig hands them
\* over (line 219): CPU a float64, here a whole number of half CPUs whose
\* product with the coefficient float64 holds exactly; Memory and GPU uint64
CpuHalves == {<<>>, <<1>>, <<2>>, <<3>>, <<0, 0, 200>>}

MemoryBytes ==
    {<<>>, <<7728, 3421, 1>>, MaxInt64, NatAdd(MaxInt64, <<1>>),
     MaxUint64}

ResourceRequirements == [cpuHalves : CpuHalves, memory : MemoryBytes, gpu : 0..MaxGpu]

\* resourceRequirements.CPU * NanoCPUCoefficient (line 237), in float64
CpuTimesCoefficient(cpuHalves) == NatHalf(NatMul(cpuHalves, NanoCPUCoefficient))

\* lines 222-231: one device request when GPUs are asked for
DeviceRequests(gpu) ==
    IF gpu > 0
    THEN <<[DeviceIDs |-> <<"0">>, Capabilities |-> <<<<"gpu">>>>]>>
    ELSE <<>>

\* lines 235-239: the container.Resources the requirements may become
Resources(r) ==
    {[Memory |-> Uint64ToInt64(r.memory), NanoCPUs |-> n,
      DeviceRequests |-> DeviceRequests(r.gpu)] :
        n \in Float64ToInt64(CpuTimesCoefficient(r.cpuHalves))}

TranslateResources ==
    /\ resOut = <<>>
    /\ \E o1 \in Resources(resIn[1]), o2 \in Resources(resIn[2]) : resOut' = <<o1, o2>>
    /\ UNCHANGED <<keepStack, objects, shutdownDone, faults, exec, shard, inputs, outputs,
                   exitStatus, pc, ctxCancelled, mounts, dirs, logsErr, errCh, statusCh,
                   result, calls, nameIn, nameOut, startErr, cancelRet, hung, resIn,
                   cancelled, sweptEarly, history>>

InitResources ==
    /\ InitRun({}, {[p \in Procs |-> [exec |-> <<"a">>,
                                      shard |-> [job |-> <<"a">>, index |-> 0]]]},
               {<<>>}, {<<>>}, {[code |-> 0, msg |-> FALSE]}, 0)
    /\ keepStack = FALSE
    /\ nameIn = <<>>
    /\ nameOut = <<>>
    /\ resIn \in [1..2 -> ResourceRequirements]
    /\ resOut = <<>>
    /\ history = FALSE

SpecResources == InitResources /\ [][TranslateResources]_vars

(***************************************************************************)
(* Properties.                                                             *)
(***************************************************************************)
Range(q) == {q[i] : i \in 1..Len(q)}

CleanupCalls(p) == {i \in 1..Len(calls[p]) : calls[p][i] = "cleanupJob"}

RemovalTags == {"remove", "removeErr", "removeCtxErr"}

ObjectsOf(p) == {o \in objects : o.by = p}

Owner(o) == [exec |-> exec[o.by], shard |-> shard[o.by]]

Returned(p) == pc[p] = "done" /\ calls[p] # <<>>

\* C1: on every return path of RunShard the shard's cleanupJob is invoked
\* exactly once, and only once every other step of the invocation has
\* finished: nothing but its own removal follows it, and it has not run
\* while the invocation is still at one of its steps.
C1_CleanupOnceAndLast ==
    \A p \in Procs :
        /\ Returned(p) => Cardinality(CleanupCalls(p)) = 1 /\ result[p].kind # "none"
        /\ pc[p] # "done" => CleanupCalls(p) = {}
        /\ \A i \in CleanupCalls(p) :
              \A j \in (i + 1)..Len(calls[p]) : calls[p][j] \in RemovalTags

C1_Witness ==
    \E p \in Procs :
        /\ Returned(p)
        /\ result[p] = FailResult("unknown storage volume type")
        /\ Cardinality(CleanupCalls(p)) = 1

C3_WaitErrorTakesPrecedence ==
    [][\A p \in Procs :
          (pc[p] = "select" /\ pc'[p] # "select" /\ errCh[p] # <<>>)
              => "wait" \in Range(result'[p].err)]_vars

\* C4: two distinct (executor ID, shard) pairs get distinct container names
\* and distinct job label values; the same pair gets the same values.
C4_LabelUniqueness ==
    nameOut # <<>> =>
        IF nameIn[1] # nameIn[2]
        THEN /\ nameOut[1].name # nameOut[2].name
             /\ nameOut[1].label # nameOut[2].label
        ELSE nameOut[1] = nameOut[2]

\* C5: the removal of cleanupJob and of CancelShard for shard s of executor
\* e removes only objects created for s by e, and cleanupAll of executor e
\* removes only objects created by e.
C5_RemovalsStayInScope ==
    [][/\ \A p \in Procs :
             (pc[p] = "deferred" /\ pc'[p] = "done")
                 => \A o \in objects \ objects' :
                        Owner(o) = [exec |-> exec[p], shard |-> shard[p]]
       /\ \A e \in ExecutorIDs, s \in Shards(JobIDs) :
             CancelShard(e, s)
                 => \A o \in objects \ objects' : Owner(o) = [exec |-> e, shard |-> s]
       /\ \A e \in ExecutorIDs :
             cleanupAll(e) => \A o \in objects \ objects' : exec[o.by] = e]_vars

\* C6: every object in the daemon carries the job label value cleanupJob of
\* its invocation removes by and the executor label cleanupAll removes by;
\* and once RunShard has returned, with preserve mode off and its removal
\* carried out, no object the invocation created is left.
C6_NothingLeftAfterReturn ==
    /\ \A o \in objects :
          /\ o.labels[cleanupJobSelector(o.by)[1]] = cleanupJobSelector(o.by)[2]
          /\ o.labels[labelExecutorName] = exec[o.by]
    /\ \A p \in Procs :
          (Returned(p) /\ ~keepStack /\ "remove" \in Range(calls[p]))
              => ObjectsOf(p) = {}

C6_Witness ==
    \E p \in Procs :
        /\ Returned(p)
        /\ ~keepStack
        /\ "start" \in Range(calls[p])
        /\ "remove" \in Range(calls[p])

\* C7: when the select resolves, RunShard produces a result also when
\* following the logs failed; its combined error holds the log-follow
\* error, the wait error when the select received one, and the exit
\* status's message when the select received a status carrying one; it is
\* nil exactly when none of the three occurred.
C7_LogErrorCombined ==
    [][\A p \in Procs :
          (pc[p] = "select" /\ pc'[p] # "select") =>
              LET r == result'[p]
                  gotErr == errCh'[p] # errCh[p]
                  gotMsg == statusCh'[p] # statusCh[p] /\ statusCh[p][1].msg
              IN  /\ r.kind = "result"
                  /\ "wait" \in Range(calls[p])
                  /\ logsErr[p] = "logs" => "logs" \in Range(r.err)
                  /\ gotErr => "wait" \in Range(r.err)
                  /\ gotMsg => "exitStatus" \in Range(r.err)
                  /\ r.err = <<>> <=> (logsErr[p] = "nil" /\ ~gotErr /\ ~gotMsg)]_vars

C7_Witness ==
    \E p \in Procs :
        /\ Returned(p)
        /\ logsErr[p] = "logs"
        /\ result[p].kind = "result"
        /\ result[p].err = <<"wait", "logs">>

\* C8: when the select receives an exit status of code c, the result has
\* exit code c; its combined error is nil when the status carries no
\* message and following the logs did not fail, and holds the message when
\* the status carries one.
C8_ExitCodeReported ==
    [][\A p \in Procs :
          (pc[p] = "select" /\ pc'[p] # "select" /\ statusCh'[p] # statusCh[p]) =>
              LET r == result'[p]
                  st == statusCh[p][1]
              IN  /\ r.kind = "result"
                  /\ r.exitCode = st.code
                  /\ st.msg => "exitStatus" \in Range(r.err)
                  /\ (~st.msg /\ logsErr[p] = "nil") => r.err = <<>>]_vars

C8_Witness ==
    \E p \in Procs :
        /\ Returned(p)
        /\ result[p] = [kind |-> "result", exitCode |-> 137, err |-> <<>>]

Invalid(o) == o.name = "" \/ o.path = ""

HasInvalid(outs) == \E i \in 1..Len(outs) : Invalid(outs[i])

FirstInvalid(outs) ==
    CHOOSE i \in 1..Len(outs) : Invalid(outs[i]) /\ \A j \in 1..(i - 1) : ~Invalid(outs[j])

RwMounts(p) == {i \in 1..Len(mounts[p]) : ~mounts[p][i].readOnly}

ValidationErrs == {"output volume has no name", "output volume has no path"}

EarlierErrs == {"shardStorageSpec", "prepareStorage", "unknown storage volume type", "mkdir"}

\* C9 as stated: when an output has an empty name or path, RunShard returns
\* a failure carrying a validation error, fewer mounts and directories are
\* made than the place of that output, and no container is created.
C9_InvalidOutputAborts ==
    \A p \in Procs :
        (pc[p] # "prepare" /\ calls[p] # <<>> /\ HasInvalid(outputs[p])) =>
            /\ result[p].kind = "fail"
            /\ result[p].err[1] \in ValidationErrs
            /\ Cardinality(RwMounts(p)) < FirstInvalid(outputs[p])
            /\ Cardinality(dirs[p]) < FirstInvalid(outputs[p])
            /\ "create" \notin Range(calls[p])

\* C9 as amended: when an output has an empty name or path, RunShard returns
\* a failure, which is the validation error of that output (no name, else
\* no path) unless a step before it failed first (storage, a volume that
\* is not a bind, the directory of an earlier output); fewer mounts and
\* directories are made than the place of that output, and no container
\* is created.
C9_InvalidOutputAbortsOrEarlier ==
    \A p \in Procs :
        (pc[p] # "prepare" /\ calls[p] # <<>> /\ HasInvalid(outputs[p])) =>
            LET k == FirstInvalid(outputs[p])
            IN  /\ result[p].kind = "fail"
                /\ result[p].err[1] \in ValidationErrs \cup EarlierErrs
                /\ result[p].err[1] \in ValidationErrs =>
                      /\ result[p].err[1] =
                            IF outputs[p][k].name = "" THEN "output volume has no name"
                            ELSE "output volume has no path"
                      /\ Cardinality(dirs[p]) = Cardinality({outputs[p][j].name : j \in 1..(k - 1)})
                /\ Cardinality(RwMounts(p)) < k
                /\ Cardinality(dirs[p]) < k
                /\ "create" \notin Range(calls[p])

C9_Witness ==
    \E p \in Procs :
        /\ Returned(p)
        /\ Len(outputs[p]) = 2
        /\ ~Invalid(outputs[p][1])
        /\ outputs[p][2].path = ""
        /\ result[p] = FailResult("output volume has no path")
        /\ Cardinality(dirs[p]) = 1
        /\ Cardinality(RwMounts(p)) = 1

PrepErrs ==
    ValidationErrs \cup EarlierErrs \cup {"Could not pull image", "marshal", "network"}

RuntimeRequests == {"create", "start", "logs", "wait"}

\* C10: a failure during preparation makes RunShard return a failure at
\* once: it goes to its deferred calls and never requests create, start,
\* log-follow or wait.
C10_PrepareFailureCreatesNothing ==
    \A p \in Procs :
        (result[p].kind = "fail" /\ result[p].err[1] \in PrepErrs) =>
            /\ pc[p] \in {"deferred", "done"}
            /\ Range(calls[p]) \cap RuntimeRequests = {}

C10_Witness ==
    \E p \in Procs :
        /\ Returned(p)
        /\ result[p] = FailResult("Could not pull image")
        /\ Range(calls[p]) \cap RuntimeRequests = {}

ExecutableNotFound == <<"executable", "file", "not", "found">>

\* C11: when ContainerStart has failed, RunShard returns a failure whose
\* message is "Executable file not found" if and only if the start error
\* contains "executable file not found", and "failed to start container"
\* otherwise; it goes to its deferred calls without following the logs
\* and without waiting.
C11_StartErrorClassified ==
    \A p \in Procs :
        startErr[p] # <<>> =>
            /\ result[p].kind = "fail"
            /\ Len(result[p].err) = 1
            /\ result[p].err[1] \in {"Executable file not found", "failed to start container"}
            /\ result[p].err[1] = "Executable file not found"
                  <=> Contains(startErr[p], ExecutableNotFound)
            /\ pc[p] \in {"deferred", "done"}
            /\ Range(calls[p]) \cap {"logs", "wait", "writeResults"} = {}

C11_Witness ==
    \E p \in Procs :
        /\ Returned(p)
        /\ Contains(startErr[p], ExecutableNotFound)
        /\ result[p] = FailResult("Executable file not found")
        /\ "start" \in Range(calls[p])

\* the mount entries of the declared inputs and outputs, in declared order
DeclaredMounts(ins, outs) ==
    [i \in 1..Len(ins) |->
        [readOnly |-> TRUE, source |-> ins[i].source, target |-> ins[i].target]]
    \o [j \in 1..Len(outs) |->
        [readOnly |-> FALSE, source |-> <<jobResultsDir, outs[j].name>>,
         target |-> <<outs[j].path>>]]

\* C12: the mount list handed to ContainerCreate holds one read-only entry
\* per resolved input, source and target as resolved, then one read-write
\* entry per declared output, from resultsDir/name to the output's path,
\* the inputs in the order declared and the outputs in the order declared.
C12_MountListInDeclaredOrder ==
    \A p \in Procs :
        "create" \in Range(calls[p]) =>
            mounts[p] = DeclaredMounts(inputs[p], outputs[p])

\* C13: CancelShard never hands an error to its caller, and the deferred
\* cleanupJob leaves the result of RunShard as it was, whether its removal
\* is carried out or fails.
C13_CleanupErrorsNotEscalated ==
    [][/\ cancelRet' = "nil"
       /\ \A p \in Procs : pc[p] = "deferred" => result'[p] = result[p]]_vars

ObjectNames(objs) == {o.name : o \in objs}

\* C14: while ShouldKeepStack holds, no step removes an object from the
\* daemon: not the deferred cleanupJob, not CancelShard, not cleanupAll.
C14_KeepStackRemovesNothing ==
    [][keepStack => ObjectNames(objects) \subseteq ObjectNames(objects')]_vars

\* the step is the shutdown callback of executor e
SweepOf(e) == e \notin shutdownDone /\ e \in shutdownDone'

\* the removal of everything labelled with executor e was issued in the
\* step: it was carried out, or the daemon failed it
SweepIssued(e) ==
    \/ objects' = {o \in objects : o.labels[labelExecutorName] # e}
    \/ faults' < faults

\* C15 as stated: the shutdown callback of an executor issues the removal
\* of every object labelled with its ID, whatever the configuration, the
\* steps in-flight invocations are at and the contexts that are cancelled.
C15_SweepUnconditional ==
    [][\A e \in ExecutorIDs : SweepOf(e) => SweepIssued(e)]_vars

\* C15 as amended: unless ShouldKeepStack holds, the shutdown callback of
\* an executor issues the removal of every object labelled with its ID,
\* whatever the steps in-flight invocations are at and the contexts that
\* are cancelled; it runs once for the executor.
C15_SweepUnlessKept ==
    [][\A e \in ExecutorIDs :
          /\ (SweepOf(e) /\ ~keepStack) => SweepIssued(e)
          /\ e \in shutdownDone => e \in shutdownDone']_vars

C15_Witness ==
    \E p \in Procs :
        /\ exec[p] \in shutdownDone
        /\ ~keepStack
        /\ pc[p] = "select"
        /\ ctxCancelled[p]
        /\ faults = MaxFaults
        /\ cancelRet = "nil"
        /\ \A o \in objects : o.labels[labelExecutorName] # exec[p]

\* a cleanup found nothing to remove for shard s of executor e
NothingLabelled(e, s) ==
    \A o \in objects : o.labels[labelJobName] # labelJobValue(e, s)

\* C17: a shard cleanup that finds no object of the shard, because an
\* earlier cleanup removed them or because the shard never created one,
\* leaves the daemon's objects as they are and reports no error.
C17_CleanupIdempotent ==
    [][/\ \A e \in ExecutorIDs, s \in Shards(JobIDs) :
             (CancelShard(e, s) /\ NothingLabelled(e, s))
                 => objects' = objects /\ cancelRet' = "nil"
       /\ \A p \in Procs :
             (pc[p] = "deferred" /\ pc'[p] # "deferred" /\ NothingLabelled(exec[p], shard[p]))
                 => objects' = objects]_vars

\* the quota cpuFraction * 10^9 of a requirement
ExactQuota(r) == NatHalf(NatMul(r.cpuHalves, <<0, 0, 10>>))

\* C18: the CPU quota is cpuFraction * 10^9, the memory limit is the
\* declared memoryBytes, a requirement that asks for no more CPU and no more
\* memory than another gets no larger a quota and no larger a limit, and
\* there is a device request if and only if gpuCount > 0, never more of
\* them than gpuCount.
C18_ResourceTranslation ==
    resOut # <<>> =>
        /\ \A i \in 1..2 :
              /\ resOut[i].NanoCPUs = Int64(FALSE, ExactQuota(resIn[i]))
              /\ resOut[i].Memory = Int64(FALSE, resIn[i].memory)
              /\ Len(resOut[i].DeviceRequests) > 0 <=> resIn[i].gpu > 0
              /\ Len(resOut[i].DeviceRequests) <= resIn[i].gpu
        /\ ~NatLess(resIn[2].cpuHalves, resIn[1].cpuHalves)
              => IntLeq(resOut[1].NanoCPUs, resOut[2].NanoCPUs)
        /\ ~NatLess(resIn[2].memory, resIn[1].memory)
              => IntLeq(resOut[1].Memory, resOut[2].Memory)

\* the runtime calls and steps of one invocation, in the order of the code
StepOrder ==
    <<"prepare", "create", "start", "logs", "wait", "writeResults", "cleanupJob">>

IsPrefix(q, r) == Len(q) <= Len(r) /\ q = SubSeq(r, 1, Len(q))

\* the calls without the tag of the removal's outcome
Steps(p) == SelectSeq(calls[p], LAMBDA c : c \notin RemovalTags)

\* the steps before the deferred cleanupJob
Body(p) ==
    IF Steps(p) # <<>> /\ Steps(p)[Len(Steps(p))] = "cleanupJob"
    THEN SubSeq(Steps(p), 1, Len(Steps(p)) - 1)
    ELSE Steps(p)

\* what the deferred cleanupJob follows on, for each way to return
ReturnsAfter(p) ==
    LET body == Body(p)
    IN  CASE result[p].kind = "result" -> body = SubSeq(StepOrder, 1, 6)
          [] result[p].err[1] \in PrepErrs -> body = SubSeq(StepOrder, 1, 1)
          [] result[p].err[1] = "failed to create container" -> body = SubSeq(StepOrder, 1, 2)
          [] OTHER -> body = SubSeq(StepOrder, 1, 3)

\* C19: the steps of an invocation are taken in the order prepare, create,
\* start, log-follow, wait, result: create is requested at most once and
\* only after preparation succeeded, start only after create succeeded,
\* log-follow and wait only after start succeeded; a failure at create or
\* at start returns a failure and no later step is taken.
C19_CallOrder ==
    \A p \in Procs :
        /\ IsPrefix(Body(p), SubSeq(StepOrder, 1, 6))
        /\ "cleanupJob" \in Range(calls[p]) <=> (Returned(p) \/ pc[p] = "blocked")
        /\ Cardinality({i \in 1..Len(calls[p]) : calls[p][i] = "create"}) <= 1
        /\ "create" \in Range(calls[p]) => PrepareOutcome(inputs[p], outputs[p],
               [failAt |-> "none", mkdirFail |-> 0,
                order |-> [i \in 1..Len(inputs[p]) |-> i], skipPull |-> TRUE]).err = "nil"
        /\ "start" \in Range(calls[p]) => result[p].err # <<"failed to create container">>
        /\ "logs" \in Range(calls[p]) => startErr[p] = <<>>
        /\ Returned(p) => ReturnsAfter(p)

C19_Witness ==
    \E p \in Procs :
        /\ Returned(p)
        /\ result[p] = FailResult("failed to create container")
        /\ Steps(p) = <<"prepare", "create", "cleanupJob">>

\* C20: no cleanup is ever blocked for good in its removal: the deferred
\* cleanupJob and cleanupAll return also when the daemon does not answer,
\* because the context they remove under ends.
C20_CleanupTimeBounded ==
    /\ hung = {}
    /\ \A p \in Procs : pc[p] # "blocked"

\* C16: every RunShard invocation returns in the end, with a result or a
\* failure; the outcome, once there, does not change; and the select goes
\* on only when the wait has delivered an error or an exit status.
C16_EveryInvocationReturns ==
    /\ \A p \in Procs :
          pc[p] = "prepare" ~> (pc[p] = "done" /\ result[p].kind \in {"result", "fail"})
    /\ [][\A p \in Procs :
             /\ result[p] # NoResult => result'[p] = result[p]
             /\ (pc[p] = "select" /\ pc'[p] # "select")
                   => (errCh[p] # <<>> \/ statusCh[p] # <<>>)]_vars

C16_Witness ==
    \E p \in Procs :
        /\ Returned(p)
        /\ ctxCancelled[p]
        /\ "wait" \in Range(calls[p])
        /\ result[p].kind = "result"
        /\ ObjectsOf(p) = {}

\* C21: once a CancelShard of its shard has returned without error while
\* a RunShard invocation is in flight, no container is created or started
\* for that invocation any more.
C21_CancelledNeverRuns ==
    [][\A p \in cancelled : \A o \in objects' \ objects : o.by # p]_vars

\* the invocations on executor e
InvocationsOn(e) == {p \in Procs : exec[p] = e}

\* the shutdown sweep of e has run and returned, every invocation on e has
\* returned, preserve mode is off and the invocations' removals were
\* carried out
SweptAndReturned(e) ==
    /\ e \in shutdownDone \ hung
    /\ ~keepStack
    /\ \A p \in InvocationsOn(e) : Returned(p) /\ "remove" \in Range(calls[p])

\* C22: when the shutdown sweep of an executor has run, also while its
\* invocations were in flight and before they asked for their container,
\* and all of them have returned, with preserve mode off and their removals
\* carried out, no object labelled with the executor's ID is left.
C22_NothingLeftAfterSweep ==
    \A e \in ExecutorIDs :
        SweptAndReturned(e) => \A o \in objects : o.labels[labelExecutorName] # e

C22_Witness ==
    \E p \in sweptEarly :
        /\ SweptAndReturned(exec[p])
        /\ InvocationsOn(exec[p]) = Procs
        /\ result[p].kind = "result"
        /\ \A o \in objects : o.labels[labelExecutorName] # exec[p]

====
